---- MODULE Spec2Model ----
(***************************************************************************)
(* NexusPay: the NexusEscrow contract (contracts/NexusEscrow.sol), the     *)
(* NexusReputation contract, the USDC token balances they move, and the    *)
(* x402 paywall middleware of the API server.                              *)
(*                                                                         *)
(* Every external call of a contract is one atomic step (an EVM            *)
(* transaction): a call whose require fails, or whose token transfer       *)
(* cannot be paid, reverts and changes nothing, so it is a stuttering      *)
(* step.  `last` names the call that succeeded most recently.              *)
(* Amounts are far below 2^256, so uint256 arithmetic never wraps here.    *)
(* Titles, descriptions, the tasks' timestamps and the CCTP routing fields  *)
(* are stored and echoed only; they are left out.                          *)
(* A request to a paywalled endpoint is one atomic step as well: the        *)
(* middleware has no await, so Node runs it to its response unbroken.       *)
(***************************************************************************)
EXTENDS Integers, Sequences, FiniteSets, TLC

\* ---------------------------------------------------------------- bounds
MaxTasks == 2
MaxMilestones == 2
InitBalance == 100
MaxRegistered == 2
MaxRatings == 3
MaxRecords == 2
RatedTasks == 1
RatedRatings == 1
MaxReports == 2
TrustCompletions == 11
TrustRatings == 2
TrustDisputes == 1
MaxPayments == 2

\* ------------------------------------------------------ program constants
PLATFORM_FEE_BPS == 150
BPS_DENOMINATOR == 10000
MAX_MILESTONES == 10

\* ------------------------------------------------------------- identities
\* address(0): the value of an address field that was never written
NoAddr == "0x0"
\* the deployer of both contracts (msg.sender of the constructors)
Deployer == "admin"
\* the externally owned accounts that send transactions
Addr == {"admin", "alice", "bob"}
\* the escrow contract's own address: it holds tokens and sends no call
EscrowAddr == "escrow"
Holders == Addr \cup {EscrowAddr}

TaskIds == 0 .. (MaxTasks - 1)
MIdx == 0 .. (MaxMilestones - 1)
\* amounts a caller may pass per milestone: 0 is rejected, 50 has a zero
\* fee, 100 has the fee 1.5 truncated to 1
AmountInputs == {0, 50, 100}
\* deliverable digests a worker may pass (0 is bytes32(0), the value of a
\* milestone that was never delivered)
Hashes == {1}
\* two different hashes, for the behaviours that look at what is stored
HashInputs == {1, 2}
\* the account the tokens are minted to before the first call
Funded == {"alice"}
\* names an agent may register under: empty, valid, and 65 bytes long
Names == {"", "bot",
          "aaaaaaaaaaaaaaaaaaaaaaaaaaaaaaaaaaaaaaaaaaaaaaaaaaaaaaaaaaaaaaaaa"}
MAX_NAME_LEN == 64
\* the names at the limits as well: 1 byte and 64 bytes long
LimitNames == Names \cup {"a",
          "bbbbbbbbbbbbbbbbbbbbbbbbbbbbbbbbbbbbbbbbbbbbbbbbbbbbbbbbbbbbbbbb"}
\* block.timestamp of a registration, and the later ones
Timestamps == {1}
LaterTimestamps == {1, 2}
\* ratings a caller may pass (uint8): below, at and above the limits 1, 100
RatingInputs == {0, 1, 50, 100, 101}
MIN_RATING == 1
MAX_RATING == 100
VOLUME_CAP == 10
DISPUTE_PENALTY == 5
\* amounts (earned, spent, revenue) and call counts a recorder may pass
RecordAmounts == {0, 7}
CallCounts == {1, 2}
\* the ratings of the trust score scenario, and the lowest one
ScoreRatings == {1, 80, 90}

VARIABLES
    admin,                \* NexusEscrow.admin
    feeCollector,         \* NexusEscrow.feeCollector
    taskCounter,          \* NexusEscrow.taskCounter
    tasks,                \* NexusEscrow.tasks
    milestones,           \* NexusEscrow.milestones
    agentTasksCompleted,  \* NexusEscrow.agentTasksCompleted
    agentTotalEarned,     \* NexusEscrow.agentTotalEarned
    agentDisputesLost,    \* NexusEscrow.agentDisputesLost
    balances,             \* balanceOf of the USDC token
    profiles,             \* NexusReputation.profiles
    registeredAgents,     \* NexusReputation.registeredAgents
    escrowContract,       \* NexusReputation.escrowContract
    repAdmin,             \* NexusReputation.admin
    verifiedPayments,     \* x402 paywall: the payment cache, in insertion order
    response,             \* x402 paywall: the last request and its response
    outflow,              \* history: tokens that left escrow per task
    ratingLog,            \* history: sum, least and greatest rating per agent
    last                  \* history: the call that succeeded last

escrowVars == <<admin, feeCollector, taskCounter, tasks, milestones,
                agentTasksCompleted, agentTotalEarned, agentDisputesLost,
                balances, outflow>>
repVars == <<profiles, registeredAgents, escrowContract, repAdmin>>
payVars == <<verifiedPayments, response>>
vars == <<escrowVars, repVars, payVars, ratingLog, last>>

\* JSON values a field of a payment proof may hold: absent, a string, or an
\* array of one string
Undefined == [type |-> "undefined", v |-> ""]
Str(s) == [type |-> "string", v |-> s]
Arr(s) == [type |-> "array", v |-> s]
TxHashes == {Undefined, Str("0xaa"), Str("0xbb"), Arr("0xaa")}
Payers == {Str(""), Str("0xP1"), Str("0xP2")}
ProofAmounts == {Undefined, Str("abc"), Str("0.005"), Str("0.01"), Str("0.05")}
ChainIds == {84532}
\* the X-PAYMENT header of a request: absent, empty, not base64 of JSON, or
\* the encoding of a proof
Headers ==
    {[kind |-> k, txHash |-> Undefined, payer |-> Undefined,
      amount |-> Undefined, chainId |-> 0] : k \in {"absent", "empty", "garbled"}}
    \cup [kind : {"proof"}, txHash : TxHashes, payer : Payers,
          amount : ProofAmounts, chainId : ChainIds]
\* the paywalled routes of the server and their prices in micro USDC
Endpoints == {"/api/x402/sentiment-analysis", "/api/x402/data-enrichment"}
PriceOf(endpoint) ==
    IF endpoint = "/api/x402/sentiment-analysis" THEN 10000 ELSE 50000

\* ----------------------------------------------------------------- types
\* storage default of a Task slot (all-zero: status Open, no parties)
EmptyTask ==
    [client |-> NoAddr, worker |-> NoAddr, status |-> "Open",
     totalAmount |-> 0, releasedAmount |-> 0, milestoneCount |-> 0]

\* storage default of a Milestone slot
EmptyMilestone == [amount |-> 0, status |-> "Pending", deliverableHash |-> 0]

\* storage default of an AgentProfile slot
EmptyProfile ==
    [name |-> "", registeredAt |-> 0, exists |-> FALSE,
     tasksCompleted |-> 0, tasksPosted |-> 0,
     totalEarned |-> 0, totalSpent |-> 0, avgRating |-> 0, ratingCount |-> 0,
     disputesWon |-> 0, disputesLost |-> 0, x402CallsServed |-> 0,
     x402Revenue |-> 0]

NoCall == [op |-> "none", caller |-> NoAddr, taskId |-> 0, idx |-> 0,
           fav |-> FALSE, agent |-> NoAddr, other |-> NoAddr, x |-> 0,
           y |-> 0]

\* the ratings of an agent that was never rated
NoRatings == [sum |-> 0, least |-> 0, most |-> 0]

\* the ratings of an agent after one more rating
Logged(log, count, rating) ==
    [sum |-> log.sum + rating,
     least |-> IF count = 0 \/ rating < log.least THEN rating ELSE log.least,
     most |-> IF count = 0 \/ rating > log.most THEN rating ELSE log.most]

\* no request was served yet
NoResponse ==
    [endpoint |-> "", header |-> [kind |-> "none"], status |-> 0,
     error |-> ""]

\* a successful call of the escrow (task id, milestone index, flag)
Call(op, caller, taskId, idx, fav) ==
    [op |-> op, caller |-> caller, taskId |-> taskId, idx |-> idx, fav |-> fav,
     agent |-> NoAddr, other |-> NoAddr, x |-> 0, y |-> 0]

\* a successful call of the reputation contract (target agent, two numbers;
\* recordDispute puts the winner in agent and the loser in other)
RepCall(op, caller, agent, x, y) ==
    [op |-> op, caller |-> caller, taskId |-> 0, idx |-> 0, fav |-> FALSE,
     agent |-> agent, other |-> NoAddr, x |-> x, y |-> y]

\* ------------------------------------------------------------ pure helpers
RECURSIVE SumSeq(_)
SumSeq(s) == IF s = <<>> THEN 0 ELSE Head(s) + SumSeq(Tail(s))

\* a fee that is rounded up instead of truncated
Fee_RoundedUp(amount) ==
    (amount * PLATFORM_FEE_BPS + (BPS_DENOMINATOR - 1)) \div BPS_DENOMINATOR

\* fee = (m.amount * PLATFORM_FEE_BPS) / 10000, truncating division
Fee(amount) == (amount * PLATFORM_FEE_BPS) \div BPS_DENOMINATOR

\* IERC20.safeTransfer(to, amount) sent by the escrow: the balances after it
TransferOut(bal, to, amount) ==
    [bal EXCEPT ![EscrowAddr] = @ - amount, ![to] = @ + amount]

\* a scan that stops one milestone early
AllMilestonesComplete_SkipsLast(ms, count) ==
    \A i \in MIdx : i + 1 < count => ms[i].status \in {"Approved", "Released"}

\* _allMilestonesComplete over the milestone table ms of a task
AllMilestonesComplete(ms, count) ==
    \A i \in MIdx : i < count => ms[i].status \in {"Approved", "Released"}

\* a resolveDispute that any caller may make
onlyAdmin_Anyone(caller) == caller \in Addr

\* modifiers of NexusEscrow
onlyAdmin(caller) == caller = admin
onlyClient(caller, taskId) == caller = tasks[taskId].client
onlyWorker(caller, taskId) == caller = tasks[taskId].worker

\* ------------------------------------------------------------------ Init
\* NexusEscrow after its constructor, and the token before the first call
InitEscrow ==
    /\ admin = Deployer
    /\ feeCollector \in Addr
    /\ taskCounter = 0
    /\ tasks = [t \in TaskIds |-> EmptyTask]
    /\ milestones = [t \in TaskIds |-> [i \in MIdx |-> EmptyMilestone]]
    /\ agentTasksCompleted = [a \in Addr |-> 0]
    /\ agentTotalEarned = [a \in Addr |-> 0]
    /\ agentDisputesLost = [a \in Addr |-> 0]
    /\ balances = [h \in Holders |-> IF h \in Funded THEN InitBalance ELSE 0]
    /\ outflow = [t \in TaskIds |-> 0]
    /\ last = NoCall

\* NexusReputation after its constructor, its escrow link being linked
InitReputation(linked) ==
    /\ repAdmin = Deployer
    /\ profiles = [a \in Addr |-> EmptyProfile]
    /\ registeredAgents = <<>>
    /\ escrowContract = linked
    /\ ratingLog = [a \in Addr |-> NoRatings]

\* the paywall module after it is loaded: an empty cache, nothing served
InitPaywall ==
    /\ verifiedPayments = <<>>
    /\ response = NoResponse

Init == InitEscrow /\ InitReputation(NoAddr) /\ InitPaywall

\* ------------------------------------------------------- escrow operations
\* a createTask that takes milestones of amount 0
createTask_ZeroAmounts(caller, nDesc, amounts) ==
    LET total == SumSeq(amounts)
        taskId == taskCounter
    IN  /\ taskCounter < MaxTasks
        /\ nDesc = Len(amounts)
        /\ nDesc > 0 /\ nDesc <= MAX_MILESTONES
        /\ balances[caller] >= total
        /\ balances' = [balances EXCEPT ![caller] = @ - total,
                                        ![EscrowAddr] = @ + total]
        /\ taskCounter' = taskCounter + 1
        /\ tasks' = [tasks EXCEPT ![taskId] =
                        [@ EXCEPT !.client = caller,
                                  !.status = "Open",
                                  !.totalAmount = total,
                                  !.milestoneCount = nDesc]]
        /\ milestones' = [milestones EXCEPT ![taskId] =
                        [i \in MIdx |->
                            IF i < nDesc
                            THEN [amount |-> amounts[i + 1],
                                  status |-> "Pending",
                                  deliverableHash |-> 0]
                            ELSE @[i]]]
        /\ last' = Call("createTask", caller, taskId, 0, FALSE)
        /\ UNCHANGED <<admin, feeCollector, agentTasksCompleted,
                       agentTotalEarned, agentDisputesLost, outflow, repVars, payVars, ratingLog>>

\* createTask: nDesc is _milestoneDescriptions.length, amounts is
\* _milestoneAmounts.  safeTransferFrom reverts when the caller's balance is
\* below the total; callers are taken to have approved the escrow as spender.
\* The slot's worker field is not written: it keeps what acceptTask may have
\* stored under this id before the task existed.
createTask(caller, nDesc, amounts) ==
    LET total == SumSeq(amounts)
        taskId == taskCounter
    IN  /\ taskCounter < MaxTasks
        /\ nDesc = Len(amounts)
        /\ nDesc > 0 /\ nDesc <= MAX_MILESTONES
        /\ \A i \in 1 .. Len(amounts) : amounts[i] > 0
        /\ balances[caller] >= total
        /\ balances' = [balances EXCEPT ![caller] = @ - total,
                                        ![EscrowAddr] = @ + total]
        /\ taskCounter' = taskCounter + 1
        /\ tasks' = [tasks EXCEPT ![taskId] =
                        [@ EXCEPT !.client = caller,
                                  !.status = "Open",
                                  !.totalAmount = total,
                                  !.milestoneCount = nDesc]]
        /\ milestones' = [milestones EXCEPT ![taskId] =
                        [i \in MIdx |->
                            IF i < nDesc
                            THEN [amount |-> amounts[i + 1],
                                  status |-> "Pending",
                                  deliverableHash |-> 0]
                            ELSE @[i]]]
        /\ last' = Call("createTask", caller, taskId, 0, FALSE)
        /\ UNCHANGED <<admin, feeCollector, agentTasksCompleted,
                       agentTotalEarned, agentDisputesLost, outflow, repVars, payVars, ratingLog>>

\* an acceptTask that does not look at the task's status
acceptTask_AnyStatus(caller, taskId) ==
    /\ tasks[taskId].client # caller
    /\ tasks' = [tasks EXCEPT ![taskId] =
                    [@ EXCEPT !.worker = caller, !.status = "InProgress"]]
    /\ last' = Call("acceptTask", caller, taskId, 0, FALSE)
    /\ UNCHANGED <<admin, feeCollector, taskCounter, milestones,
                   agentTasksCompleted, agentTotalEarned, agentDisputesLost,
                   balances, outflow, repVars, payVars, ratingLog>>

\* an acceptTask that takes the enum's Accepted status
acceptTask_SetsAccepted(caller, taskId) ==
    /\ tasks[taskId].status = "Open"
    /\ tasks[taskId].client # caller
    /\ tasks' = [tasks EXCEPT ![taskId] =
                    [@ EXCEPT !.worker = caller, !.status = "Accepted"]]
    /\ last' = Call("acceptTask", caller, taskId, 0, FALSE)
    /\ UNCHANGED <<admin, feeCollector, taskCounter, milestones,
                   agentTasksCompleted, agentTotalEarned, agentDisputesLost,
                   balances, outflow, repVars, payVars, ratingLog>>

acceptTask(caller, taskId) ==
    /\ tasks[taskId].status = "Open"
    /\ tasks[taskId].client # caller
    /\ tasks' = [tasks EXCEPT ![taskId] =
                    [@ EXCEPT !.worker = caller, !.status = "InProgress"]]
    /\ last' = Call("acceptTask", caller, taskId, 0, FALSE)
    /\ UNCHANGED <<admin, feeCollector, taskCounter, milestones,
                   agentTasksCompleted, agentTotalEarned, agentDisputesLost,
                   balances, outflow, repVars, payVars, ratingLog>>

\* a deliverMilestone that takes any index
deliverMilestone_AnyIndex(caller, taskId, idx, hash) ==
    /\ onlyWorker(caller, taskId)
    /\ tasks[taskId].status = "InProgress"
    /\ milestones[taskId][idx].status = "Pending"
    /\ milestones' = [milestones EXCEPT ![taskId][idx] =
                        [@ EXCEPT !.status = "Delivered",
                                  !.deliverableHash = hash]]
    /\ last' = [Call("deliverMilestone", caller, taskId, idx, FALSE)
                    EXCEPT !.x = hash]
    /\ UNCHANGED <<admin, feeCollector, taskCounter, tasks,
                   agentTasksCompleted, agentTotalEarned, agentDisputesLost,
                   balances, outflow, repVars, payVars, ratingLog>>

\* `last` keeps the hash that was passed in its field x
deliverMilestone(caller, taskId, idx, hash) ==
    /\ onlyWorker(caller, taskId)
    /\ tasks[taskId].status = "InProgress"
    /\ idx < tasks[taskId].milestoneCount
    /\ milestones[taskId][idx].status = "Pending"
    /\ milestones' = [milestones EXCEPT ![taskId][idx] =
                        [@ EXCEPT !.status = "Delivered",
                                  !.deliverableHash = hash]]
    /\ last' = [Call("deliverMilestone", caller, taskId, idx, FALSE)
                    EXCEPT !.x = hash]
    /\ UNCHANGED <<admin, feeCollector, taskCounter, tasks,
                   agentTasksCompleted, agentTotalEarned, agentDisputesLost,
                   balances, outflow, repVars, payVars, ratingLog>>


\* the two safeTransfer calls that pay a milestone to the worker: the
\* payout to the worker, then the fee to the collector when it is not zero
PayWorker(bal, worker, amount) ==
    LET fee == Fee(amount)
        workerPayout == amount - fee
        b1 == TransferOut(bal, worker, workerPayout)
    IN  IF fee > 0 THEN TransferOut(b1, feeCollector, fee) ELSE b1

\* the safeTransfer that refunds a milestone to the client
RefundClient(bal, client, amount) == TransferOut(bal, client, amount)

\* a refund that is not counted as released
ReleasedAfterRefund_NotCounted(released, amount) == released

\* releasedAmount after a dispute is resolved against the worker
ReleasedAfterRefund(released, amount) == released + amount

\* task status after a milestone was paid or a dispute resolved
StatusAfter(ms, count, otherwise) ==
    IF AllMilestonesComplete(ms, count) THEN "Completed" ELSE otherwise

\* an approveMilestone that does not look at the milestone's status
approveMilestone_AnyMilestone(caller, taskId, idx) ==
    LET t == tasks[taskId]
        m == milestones[taskId][idx]
        ms1 == [milestones[taskId] EXCEPT ![idx].status = "Approved"]
        released == t.releasedAmount + m.amount
        status1 == StatusAfter(ms1, t.milestoneCount, t.status)
    IN  /\ onlyClient(caller, taskId)
        /\ t.status = "InProgress"
        /\ idx < t.milestoneCount
        /\ balances[EscrowAddr] >= m.amount
        /\ milestones' = [milestones EXCEPT ![taskId] = ms1]
        /\ balances' = PayWorker(balances, t.worker, m.amount)
        /\ outflow' = [outflow EXCEPT ![taskId] = @ + m.amount]
        /\ tasks' = [tasks EXCEPT ![taskId] =
                        [@ EXCEPT !.releasedAmount = released,
                                  !.status = status1]]
        /\ IF status1 = "Completed"
           THEN /\ agentTasksCompleted' =
                       [agentTasksCompleted EXCEPT ![t.worker] = @ + 1]
                /\ agentTotalEarned' =
                       [agentTotalEarned EXCEPT ![t.worker] = @ + released]
           ELSE UNCHANGED <<agentTasksCompleted, agentTotalEarned>>
        /\ last' = Call("approveMilestone", caller, taskId, idx, FALSE)
        /\ UNCHANGED <<admin, feeCollector, taskCounter, agentDisputesLost,
                       repVars, payVars, ratingLog>>

\* an approveMilestone whose transfers go through without the funds
approveMilestone_Unfunded(caller, taskId, idx) ==
    LET t == tasks[taskId]
        m == milestones[taskId][idx]
        ms1 == [milestones[taskId] EXCEPT ![idx].status = "Approved"]
        released == t.releasedAmount + m.amount
        status1 == StatusAfter(ms1, t.milestoneCount, t.status)
    IN  /\ onlyClient(caller, taskId)
        /\ t.status = "InProgress"
        /\ m.status = "Delivered"
        /\ milestones' = [milestones EXCEPT ![taskId] = ms1]
        /\ balances' = PayWorker(balances, t.worker, m.amount)
        /\ outflow' = [outflow EXCEPT ![taskId] = @ + m.amount]
        /\ tasks' = [tasks EXCEPT ![taskId] =
                        [@ EXCEPT !.releasedAmount = released,
                                  !.status = status1]]
        /\ IF status1 = "Completed"
           THEN /\ agentTasksCompleted' =
                       [agentTasksCompleted EXCEPT ![t.worker] = @ + 1]
                /\ agentTotalEarned' =
                       [agentTotalEarned EXCEPT ![t.worker] = @ + released]
           ELSE UNCHANGED <<agentTasksCompleted, agentTotalEarned>>
        /\ last' = Call("approveMilestone", caller, taskId, idx, FALSE)
        /\ UNCHANGED <<admin, feeCollector, taskCounter, agentDisputesLost,
                       repVars, payVars, ratingLog>>

approveMilestone(caller, taskId, idx) ==
    LET t == tasks[taskId]
        m == milestones[taskId][idx]
        ms1 == [milestones[taskId] EXCEPT ![idx].status = "Approved"]
        released == t.releasedAmount + m.amount
        status1 == StatusAfter(ms1, t.milestoneCount, t.status)
    IN  /\ onlyClient(caller, taskId)
        /\ t.status = "InProgress"
        /\ m.status = "Delivered"
        /\ balances[EscrowAddr] >= m.amount
        /\ milestones' = [milestones EXCEPT ![taskId] = ms1]
        /\ balances' = PayWorker(balances, t.worker, m.amount)
        /\ outflow' = [outflow EXCEPT ![taskId] = @ + m.amount]
        /\ tasks' = [tasks EXCEPT ![taskId] =
                        [@ EXCEPT !.releasedAmount = released,
                                  !.status = status1]]
        /\ IF status1 = "Completed"
           THEN /\ agentTasksCompleted' =
                       [agentTasksCompleted EXCEPT ![t.worker] = @ + 1]
                /\ agentTotalEarned' =
                       [agentTotalEarned EXCEPT ![t.worker] = @ + released]
           ELSE UNCHANGED <<agentTasksCompleted, agentTotalEarned>>
        /\ last' = Call("approveMilestone", caller, taskId, idx, FALSE)
        /\ UNCHANGED <<admin, feeCollector, taskCounter, agentDisputesLost,
                       repVars, payVars, ratingLog>>

\* the task status is not inspected: only the milestone must be Delivered
disputeMilestone(caller, taskId, idx) ==
    /\ onlyClient(caller, taskId)
    /\ milestones[taskId][idx].status = "Delivered"
    /\ milestones' = [milestones EXCEPT ![taskId][idx].status = "Disputed"]
    /\ tasks' = [tasks EXCEPT ![taskId].status = "Disputed"]
    /\ last' = Call("disputeMilestone", caller, taskId, idx, FALSE)
    /\ UNCHANGED <<admin, feeCollector, taskCounter, agentTasksCompleted,
                   agentTotalEarned, agentDisputesLost, balances, outflow,
                   repVars, payVars, ratingLog>>

\* a resolveDispute that does not return the task to InProgress
resolveDispute_StaysDisputed(caller, taskId, idx, inFavorOfWorker) ==
    LET t == tasks[taskId]
        m == milestones[taskId][idx]
        ms1 == [milestones[taskId] EXCEPT ![idx].status =
                    IF inFavorOfWorker THEN "Released" ELSE "Pending"]
        released == IF inFavorOfWorker
                    THEN t.releasedAmount + m.amount
                    ELSE ReleasedAfterRefund(t.releasedAmount, m.amount)
        status1 == StatusAfter(ms1, t.milestoneCount, t.status)
    IN  /\ onlyAdmin(caller)
        /\ t.status = "Disputed"
        /\ m.status = "Disputed"
        /\ balances[EscrowAddr] >= m.amount
        /\ milestones' = [milestones EXCEPT ![taskId] = ms1]
        /\ balances' = IF inFavorOfWorker
                       THEN PayWorker(balances, t.worker, m.amount)
                       ELSE RefundClient(balances, t.client, m.amount)
        /\ outflow' = [outflow EXCEPT ![taskId] = @ + m.amount]
        /\ agentDisputesLost' =
               IF inFavorOfWorker THEN agentDisputesLost
               ELSE [agentDisputesLost EXCEPT ![t.worker] = @ + 1]
        /\ tasks' = [tasks EXCEPT ![taskId] =
                        [@ EXCEPT !.releasedAmount = released,
                                  !.status = status1]]
        /\ IF status1 = "Completed"
           THEN /\ agentTasksCompleted' =
                       [agentTasksCompleted EXCEPT ![t.worker] = @ + 1]
                /\ agentTotalEarned' =
                       [agentTotalEarned EXCEPT ![t.worker] = @ + released]
           ELSE UNCHANGED <<agentTasksCompleted, agentTotalEarned>>
        /\ last' = Call("resolveDispute", caller, taskId, idx, inFavorOfWorker)
        /\ UNCHANGED <<admin, feeCollector, taskCounter, repVars, payVars, ratingLog>>

resolveDispute(caller, taskId, idx, inFavorOfWorker) ==
    LET t == tasks[taskId]
        m == milestones[taskId][idx]
        ms1 == [milestones[taskId] EXCEPT ![idx].status =
                    IF inFavorOfWorker THEN "Released" ELSE "Pending"]
        released == IF inFavorOfWorker
                    THEN t.releasedAmount + m.amount
                    ELSE ReleasedAfterRefund(t.releasedAmount, m.amount)
        status1 == StatusAfter(ms1, t.milestoneCount, "InProgress")
    IN  /\ onlyAdmin(caller)
        /\ t.status = "Disputed"
        /\ m.status = "Disputed"
        /\ balances[EscrowAddr] >= m.amount
        /\ milestones' = [milestones EXCEPT ![taskId] = ms1]
        /\ balances' = IF inFavorOfWorker
                       THEN PayWorker(balances, t.worker, m.amount)
                       ELSE RefundClient(balances, t.client, m.amount)
        /\ outflow' = [outflow EXCEPT ![taskId] = @ + m.amount]
        /\ agentDisputesLost' =
               IF inFavorOfWorker THEN agentDisputesLost
               ELSE [agentDisputesLost EXCEPT ![t.worker] = @ + 1]
        /\ tasks' = [tasks EXCEPT ![taskId] =
                        [@ EXCEPT !.releasedAmount = released,
                                  !.status = status1]]
        /\ IF status1 = "Completed"
           THEN /\ agentTasksCompleted' =
                       [agentTasksCompleted EXCEPT ![t.worker] = @ + 1]
                /\ agentTotalEarned' =
                       [agentTotalEarned EXCEPT ![t.worker] = @ + released]
           ELSE UNCHANGED <<agentTasksCompleted, agentTotalEarned>>
        /\ last' = Call("resolveDispute", caller, taskId, idx, inFavorOfWorker)
        /\ UNCHANGED <<admin, feeCollector, taskCounter, repVars, payVars, ratingLog>>

\* a cancelTask without the status check
cancelTask_AnyStatus(caller, taskId) ==
    LET t == tasks[taskId]
    IN  /\ onlyClient(caller, taskId)
        /\ balances[EscrowAddr] >= t.totalAmount
        /\ tasks' = [tasks EXCEPT ![taskId].status = "Cancelled"]
        /\ balances' = TransferOut(balances, t.client, t.totalAmount)
        /\ outflow' = [outflow EXCEPT ![taskId] = @ + t.totalAmount]
        /\ last' = Call("cancelTask", caller, taskId, 0, FALSE)
        /\ UNCHANGED <<admin, feeCollector, taskCounter, milestones,
                       agentTasksCompleted, agentTotalEarned,
                       agentDisputesLost, repVars, payVars, ratingLog>>

cancelTask(caller, taskId) ==
    LET t == tasks[taskId]
    IN  /\ onlyClient(caller, taskId)
        /\ t.status = "Open"
        /\ balances[EscrowAddr] >= t.totalAmount
        /\ tasks' = [tasks EXCEPT ![taskId].status = "Cancelled"]
        /\ balances' = TransferOut(balances, t.client, t.totalAmount)
        /\ outflow' = [outflow EXCEPT ![taskId] = @ + t.totalAmount]
        /\ last' = Call("cancelTask", caller, taskId, 0, FALSE)
        /\ UNCHANGED <<admin, feeCollector, taskCounter, milestones,
                       agentTasksCompleted, agentTotalEarned,
                       agentDisputesLost, repVars, payVars, ratingLog>>

\* ------------------------------------------------------------ escrow views
\* getAgentStats(agent): completed, earned, disputesLost
getAgentStats(agent) ==
    [completed |-> agentTasksCompleted[agent],
     earned |-> agentTotalEarned[agent],
     disputesLost |-> agentDisputesLost[agent]]

\* the loop of getOpenTasks from index i on, count being Len(acc)
RECURSIVE ScanOpen(_, _, _)
ScanOpen(i, limit, acc) ==
    IF i < taskCounter /\ Len(acc) < limit
    THEN ScanOpen(i + 1, limit,
                  IF tasks[i].status = "Open" THEN Append(acc, i) ELSE acc)
    ELSE acc

\* a getOpenTasks that does not stop at limit
getOpenTasks_NoLimit(offset, limit) == ScanOpen(offset, MaxTasks, <<>>)

getOpenTasks(offset, limit) == ScanOpen(offset, limit, <<>>)

\* --------------------------------------------------- reputation operations
\* registerAgent: now is block.timestamp of the transaction
\* a recorder check that lets every caller through
onlyAuthorized_Anyone(caller) == caller \in Addr

\* modifiers of NexusReputation
onlyAuthorized(caller) == caller = escrowContract \/ caller = repAdmin
onlyRepAdmin(caller) == caller = repAdmin

setEscrowContract(caller, escrow) ==
    /\ onlyRepAdmin(caller)
    /\ escrowContract' = escrow
    /\ last' = RepCall("setEscrowContract", caller, escrow, 0, 0)
    /\ UNCHANGED <<escrowVars, payVars, ratingLog, profiles, registeredAgents, repAdmin>>

\* a registerAgent that does not look for an existing profile
registerAgent_Again(caller, name, now) ==
    /\ Len(registeredAgents) < MaxRegistered
    /\ Len(name) > 0 /\ Len(name) <= MAX_NAME_LEN
    /\ profiles' = [profiles EXCEPT ![caller] =
                        [EmptyProfile EXCEPT !.name = name,
                                             !.registeredAt = now,
                                             !.exists = TRUE]]
    /\ registeredAgents' = Append(registeredAgents, caller)
    /\ last' = Call("registerAgent", caller, 0, 0, FALSE)
    /\ UNCHANGED <<escrowVars, payVars, ratingLog, escrowContract, repAdmin>>

registerAgent(caller, name, now) ==
    /\ Len(registeredAgents) < MaxRegistered
    /\ ~profiles[caller].exists
    /\ Len(name) > 0 /\ Len(name) <= MAX_NAME_LEN
    /\ profiles' = [profiles EXCEPT ![caller] =
                        [EmptyProfile EXCEPT !.name = name,
                                             !.registeredAt = now,
                                             !.exists = TRUE]]
    /\ registeredAgents' = Append(registeredAgents, caller)
    /\ last' = Call("registerAgent", caller, 0, 0, FALSE)
    /\ UNCHANGED <<escrowVars, payVars, ratingLog, escrowContract, repAdmin>>

\* the number of task and service reports stored so far
RecordsMade ==
    SumSeq([k \in 1 .. Len(registeredAgents) |->
               LET p == profiles[registeredAgents[k]]
               IN  p.tasksCompleted + p.tasksPosted + p.x402CallsServed])

recordTaskCompletion(caller, agent, earned) ==
    /\ onlyAuthorized(caller)
    /\ profiles[agent].exists
    /\ profiles' = [profiles EXCEPT ![agent] =
                        [@ EXCEPT !.tasksCompleted = @ + 1,
                                  !.totalEarned = @ + earned]]
    /\ last' = RepCall("recordTaskCompletion", caller, agent, earned, 0)
    /\ UNCHANGED <<escrowVars, payVars, ratingLog, registeredAgents, escrowContract, repAdmin>>

recordTaskCreation(caller, agent, spent) ==
    /\ onlyAuthorized(caller)
    /\ profiles[agent].exists
    /\ profiles' = [profiles EXCEPT ![agent] =
                        [@ EXCEPT !.tasksPosted = @ + 1,
                                  !.totalSpent = @ + spent]]
    /\ last' = RepCall("recordTaskCreation", caller, agent, spent, 0)
    /\ UNCHANGED <<escrowVars, payVars, ratingLog, registeredAgents, escrowContract, repAdmin>>

\* a running average that rounds up instead of truncating
RunningAverage_RoundsUp(avgRating, ratingCount, rating) ==
    (avgRating * ratingCount + rating + ratingCount) \div (ratingCount + 1)

\* totalRating / ratingCount after the count was incremented
RunningAverage(avgRating, ratingCount, rating) ==
    (avgRating * ratingCount + rating) \div (ratingCount + 1)

\* a submitRating that takes any number as a rating
submitRating_AnyRating(caller, agent, rating) ==
    LET p == profiles[agent]
    IN  /\ p.ratingCount < MaxRatings
        /\ agent # caller
        /\ p.exists
        /\ profiles' = [profiles EXCEPT ![agent] =
                [@ EXCEPT !.ratingCount = @ + 1,
                          !.avgRating = RunningAverage(p.avgRating,
                                                       p.ratingCount, rating)]]
        /\ ratingLog' = [ratingLog EXCEPT ![agent] =
                            Logged(@, p.ratingCount, rating)]
        /\ last' = RepCall("submitRating", caller, agent, rating, 0)
        /\ UNCHANGED <<escrowVars, payVars, registeredAgents, escrowContract,
                       repAdmin>>

\* a submitRating that lets an agent rate itself
submitRating_SelfRate(caller, agent, rating) ==
    LET p == profiles[agent]
    IN  /\ p.ratingCount < MaxRatings
        /\ rating >= MIN_RATING /\ rating <= MAX_RATING
        /\ p.exists
        /\ profiles' = [profiles EXCEPT ![agent] =
                [@ EXCEPT !.ratingCount = @ + 1,
                          !.avgRating = RunningAverage(p.avgRating,
                                                       p.ratingCount, rating)]]
        /\ ratingLog' = [ratingLog EXCEPT ![agent] =
                            Logged(@, p.ratingCount, rating)]
        /\ last' = RepCall("submitRating", caller, agent, rating, 0)
        /\ UNCHANGED <<escrowVars, payVars, registeredAgents, escrowContract,
                       repAdmin>>

submitRating(caller, agent, rating) ==
    LET p == profiles[agent]
    IN  /\ p.ratingCount < MaxRatings
        /\ rating >= MIN_RATING /\ rating <= MAX_RATING
        /\ agent # caller
        /\ p.exists
        /\ profiles' = [profiles EXCEPT ![agent] =
                [@ EXCEPT !.ratingCount = @ + 1,
                          !.avgRating = RunningAverage(p.avgRating,
                                                       p.ratingCount, rating)]]
        /\ ratingLog' = [ratingLog EXCEPT ![agent] =
                            Logged(@, p.ratingCount, rating)]
        /\ last' = RepCall("submitRating", caller, agent, rating, 0)
        /\ UNCHANGED <<escrowVars, payVars, registeredAgents, escrowContract,
                       repAdmin>>

recordX402Service(caller, agent, calls, revenue) ==
    /\ onlyAuthorized(caller)
    /\ profiles[agent].exists
    /\ profiles' = [profiles EXCEPT ![agent] =
                        [@ EXCEPT !.x402CallsServed = @ + calls,
                                  !.x402Revenue = @ + revenue]]
    /\ last' = RepCall("recordX402Service", caller, agent, calls, revenue)
    /\ UNCHANGED <<escrowVars, payVars, ratingLog, registeredAgents, escrowContract, repAdmin>>

\* the number of dispute outcomes stored so far
DisputesMade ==
    SumSeq([k \in 1 .. Len(registeredAgents) |->
               LET p == profiles[registeredAgents[k]]
               IN  p.disputesWon + p.disputesLost])

\* a recordDispute that fails when the winner is not registered
recordDispute_NeedsWinner(caller, winner, loser) ==
    LET p1 == [profiles EXCEPT ![winner].disputesWon = @ + 1]
        p2 == IF p1[loser].exists
              THEN [p1 EXCEPT ![loser].disputesLost = @ + 1] ELSE p1
    IN  /\ onlyAuthorized(caller)
        /\ profiles[winner].exists
        /\ profiles' = p2
        /\ last' = [RepCall("recordDispute", caller, winner, 0, 0)
                        EXCEPT !.other = loser]
        /\ UNCHANGED <<escrowVars, payVars, ratingLog, registeredAgents, escrowContract, repAdmin>>

\* recordDispute: a party without a profile is passed over
recordDispute(caller, winner, loser) ==
    LET p1 == IF profiles[winner].exists
              THEN [profiles EXCEPT ![winner].disputesWon = @ + 1]
              ELSE profiles
        p2 == IF p1[loser].exists
              THEN [p1 EXCEPT ![loser].disputesLost = @ + 1] ELSE p1
    IN  /\ onlyAuthorized(caller)
        /\ profiles' = p2
        /\ last' = [RepCall("recordDispute", caller, winner, 0, 0)
                        EXCEPT !.other = loser]
        /\ UNCHANGED <<escrowVars, payVars, ratingLog, registeredAgents, escrowContract, repAdmin>>

\* ------------------------------------------------------- reputation views
\* a trust score that subtracts the penalty without the floor at 0
getTrustScore_NoFloor(agent) ==
    LET p == profiles[agent]
    IN  IF ~p.exists \/ p.ratingCount = 0 THEN 0
        ELSE p.avgRating
                 + (IF p.tasksCompleted > VOLUME_CAP THEN VOLUME_CAP
                    ELSE p.tasksCompleted)
                 - p.disputesLost * DISPUTE_PENALTY

getTrustScore(agent) ==
    LET p == profiles[agent]
        ratingComponent == p.avgRating
        volumeBonus == IF p.tasksCompleted > VOLUME_CAP THEN VOLUME_CAP
                       ELSE p.tasksCompleted
        disputePenalty == p.disputesLost * DISPUTE_PENALTY
        score == ratingComponent + volumeBonus
    IN  IF ~p.exists \/ p.ratingCount = 0 THEN 0
        ELSE IF disputePenalty >= score THEN 0
        ELSE score - disputePenalty

\* getRegisteredAgentCount()
getRegisteredAgentCount == Len(registeredAgents)

\* a leaderboard that always starts at the head of the registry
getLeaderboard_FromHead(offset, limit) ==
    LET total == Len(registeredAgents)
        count == IF limit > total THEN total ELSE limit
    IN  IF offset >= total THEN <<<<>>, <<>>>>
        ELSE <<[i \in 1 .. count |-> registeredAgents[i]],
               [i \in 1 .. count |-> getTrustScore(registeredAgents[i])]>>

\* getLeaderboard: the pair <<agents, scores>>; registeredAgents[k + 1] is
\* the code's registeredAgents[k]
getLeaderboard(offset, limit) ==
    LET total == Len(registeredAgents)
        end == IF offset + limit > total THEN total ELSE offset + limit
        count == end - offset
    IN  IF offset >= total THEN <<<<>>, <<>>>>
        ELSE <<[i \in 1 .. count |-> registeredAgents[offset + i]],
               [i \in 1 .. count |->
                   getTrustScore(registeredAgents[offset + i])]>>

\* ------------------------------------------------------------ x402 paywall
\* JavaScript truthiness of a JSON value: undefined and "" are falsy, a
\* non-empty string and every array are truthy
Truthy(val) == ~(val.type = "undefined" \/ (val.type = "string" /\ val.v = ""))

\* Map.prototype.has: keys are compared by SameValueZero, so strings match by
\* value, and an array matches only the very object that was stored; the
\* array of a request is made anew by JSON.parse and matches no stored key
MapHas(map, key) ==
    /\ key.type # "array"
    /\ \E i \in 1 .. Len(map) : map[i].txHash = key

\* the amount strings parseFloat cannot read (it yields NaN)
NotNumeric == {"abc"}

\* parseFloat of an amount string, in micro USDC
ParseFloat(a) ==
    CASE a = "0.005" -> 5000
      [] a = "0.01" -> 10000
      [] a = "0.05" -> 50000

\* paidAmount < parseFloat(amountUsdc); a comparison with NaN is false
PaidLess(amount, amountMicroUsdc) ==
    amount.v \notin NotNumeric /\ ParseFloat(amount.v) < amountMicroUsdc

\* the middleware paywall(amountMicroUsdc) serving one request to endpoint;
\* when it calls next() the route answers 200
paywall(amountMicroUsdc, endpoint, header, now) ==
    LET Respond(status, error) ==
            response' = [endpoint |-> endpoint, header |-> header,
                         status |-> status, error |-> error]
    IN  /\ IF header.kind \in {"absent", "empty"}
           THEN /\ Respond(402, "Payment Required")
                /\ UNCHANGED verifiedPayments
           ELSE IF header.kind = "garbled"
           THEN /\ Respond(400, "Invalid X-PAYMENT header")
                /\ UNCHANGED verifiedPayments
           ELSE IF \/ ~Truthy(header.txHash)
                   \/ ~Truthy(header.payer)
                   \/ ~Truthy(header.amount)
           THEN /\ Respond(400, "Invalid payment proof")
                /\ UNCHANGED verifiedPayments
           ELSE IF MapHas(verifiedPayments, header.txHash)
           THEN /\ Respond(400, "Payment already used")
                /\ UNCHANGED verifiedPayments
           ELSE IF PaidLess(header.amount, amountMicroUsdc)
           THEN /\ Respond(402, "Insufficient payment")
                /\ UNCHANGED verifiedPayments
           ELSE /\ verifiedPayments' =
                       Append(verifiedPayments,
                              [txHash |-> header.txHash,
                               payer |-> header.payer,
                               amount |-> header.amount,
                               chainId |-> header.chainId,
                               endpoint |-> endpoint,
                               timestamp |-> now])
                /\ Respond(200, "")
        /\ UNCHANGED <<escrowVars, repVars, ratingLog, last>>

\* ------------------------------------------------------------------- Next
\* the milestone amount arrays a caller may pass: lengths 0 .. MaxMilestones
AmountArrays ==
    UNION {[1 .. n -> AmountInputs] : n \in 0 .. MaxMilestones}

DoCreateTask ==
    \E c \in Addr, n \in 0 .. MaxMilestones, a \in AmountArrays :
        createTask(c, n, a)
DoAcceptTask == \E c \in Addr, t \in TaskIds : acceptTask(c, t)
DoDeliverMilestone ==
    \E c \in Addr, t \in TaskIds, i \in MIdx, h \in Hashes :
        deliverMilestone(c, t, i, h)
DoApproveMilestone ==
    \E c \in Addr, t \in TaskIds, i \in MIdx : approveMilestone(c, t, i)
DoDisputeMilestone ==
    \E c \in Addr, t \in TaskIds, i \in MIdx : disputeMilestone(c, t, i)
DoResolveDispute ==
    \E c \in Addr, t \in TaskIds, i \in MIdx, f \in BOOLEAN :
        resolveDispute(c, t, i, f)
DoCancelTask == \E c \in Addr, t \in TaskIds : cancelTask(c, t)

Next ==
    \/ DoCreateTask
    \/ DoAcceptTask
    \/ DoDeliverMilestone
    \/ DoApproveMilestone
    \/ DoDisputeMilestone
    \/ DoResolveDispute
    \/ DoCancelTask

Spec == Init /\ [][Next]_vars

\* the escrow while its admin makes no call
NextNoAdmin ==
    \/ DoCreateTask
    \/ DoAcceptTask
    \/ DoDeliverMilestone
    \/ DoApproveMilestone
    \/ DoDisputeMilestone
    \/ DoCancelTask

SpecNoAdmin == Init /\ [][NextNoAdmin]_vars

\* both contracts as scripts/deploy.js deploys them: the deployer is the fee
\* collector, and agents register with the reputation contract
DoRegisterAgent ==
    \E c \in Addr, n \in Names, ts \in Timestamps : registerAgent(c, n, ts)

InitCoupled ==
    /\ InitEscrow /\ feeCollector = Deployer /\ InitReputation(EscrowAddr)
    /\ InitPaywall

NextCoupled ==
    \/ Next
    \/ DoRegisterAgent

SpecCoupled == InitCoupled /\ [][NextCoupled]_vars

\* the reputation contract alone: agents register and rate each other
DoSubmitRating ==
    \E c \in Addr, a \in Addr, r \in RatingInputs : submitRating(c, a, r)

InitRating ==
    /\ InitEscrow /\ feeCollector = Deployer /\ InitReputation(NoAddr)
    /\ InitPaywall

DoRegisterAnyName ==
    \E c \in Addr, n \in LimitNames, ts \in Timestamps :
        registerAgent(c, n, ts)

NextRating ==
    \/ DoRegisterAnyName
    \/ DoSubmitRating

SpecRating == InitRating /\ [][NextRating]_vars

\* the reputation contract alone: the admin links a recorder, agents
\* register, and the recorders report tasks and x402 service
DoSetEscrowContract ==
    \E c \in Addr, e \in Holders \cup {NoAddr} : setEscrowContract(c, e)
DoRecordTaskCompletion ==
    /\ RecordsMade < MaxRecords
    /\ \E c \in Addr, a \in Addr, e \in RecordAmounts :
        recordTaskCompletion(c, a, e)
DoRecordTaskCreation ==
    /\ RecordsMade < MaxRecords
    /\ \E c \in Addr, a \in Addr, e \in RecordAmounts :
        recordTaskCreation(c, a, e)
DoRecordX402Service ==
    /\ RecordsMade < MaxRecords
    /\ \E c \in Addr, a \in Addr, n \in CallCounts, e \in RecordAmounts :
        recordX402Service(c, a, n, e)

NextRecord ==
    \/ DoSetEscrowContract
    \/ DoRegisterAgent
    \/ DoRecordTaskCompletion
    \/ DoRecordTaskCreation
    \/ DoRecordX402Service

SpecRecord == InitRating /\ [][NextRecord]_vars

\* both contracts side by side: the escrow with at most RatedTasks tasks,
\* and agents that register and give at most RatedRatings ratings in all
DoCreateRatedTask == taskCounter < RatedTasks /\ DoCreateTask

RatingsMade ==
    SumSeq([k \in 1 .. Len(registeredAgents) |->
               profiles[registeredAgents[k]].ratingCount])

DoSubmitFewRatings == RatingsMade < RatedRatings /\ DoSubmitRating

NextRated ==
    \/ DoCreateRatedTask
    \/ DoAcceptTask
    \/ DoDeliverMilestone
    \/ DoApproveMilestone
    \/ DoDisputeMilestone
    \/ DoResolveDispute
    \/ DoCancelTask
    \/ DoRegisterAgent
    \/ DoSubmitFewRatings

SpecRated == InitCoupled /\ [][NextRated]_vars

\* the reputation contract with its admin as the only recorder: agents
\* register and are rated, the admin reports completions and disputes
DoRateForScore ==
    /\ RatingsMade < TrustRatings
    /\ \E c \in Addr, a \in Addr, r \in ScoreRatings : submitRating(c, a, r)
DoCompleteForScore ==
    /\ RecordsMade < TrustCompletions
    /\ \E c \in Addr, a \in Addr : recordTaskCompletion(c, a, 0)
DoDisputeForScore ==
    /\ DisputesMade < TrustDisputes
    /\ \E c \in Addr, w \in Addr, l \in Addr : recordDispute(c, w, l)

NextTrust ==
    \/ DoRegisterAgent
    \/ DoRateForScore
    \/ DoCompleteForScore
    \/ DoDisputeForScore

SpecTrust == InitRating /\ [][NextTrust]_vars

\* the whole reputation contract: every state-changing function, any caller
DoRegisterAnyTime ==
    \E c \in Addr, n \in Names, ts \in LaterTimestamps :
        registerAgent(c, n, ts)
DoRecordDispute ==
    \E c \in Addr, w \in Addr, l \in Addr : recordDispute(c, w, l)

\* the ratings, reports and dispute outcomes stored so far
ReportsMade == RatingsMade + RecordsMade + DisputesMade

NextReputation ==
    \/ DoSetEscrowContract
    \/ DoRegisterAnyTime
    \/ ReportsMade < MaxReports /\ DoSubmitRating
    \/ ReportsMade < MaxReports /\ DoRecordTaskCompletion
    \/ ReportsMade < MaxReports /\ DoRecordTaskCreation
    \/ ReportsMade < MaxReports /\ DoRecordX402Service
    \/ ReportsMade < MaxReports /\ DoRecordDispute

SpecReputation == InitRating /\ [][NextReputation]_vars

\* the escrow with at most RatedTasks tasks, whose worker may deliver either
\* of two hashes
DoDeliverAnyHash ==
    \E c \in Addr, t \in TaskIds, i \in MIdx, h \in HashInputs :
        deliverMilestone(c, t, i, h)

NextHashes ==
    \/ DoCreateRatedTask
    \/ DoAcceptTask
    \/ DoDeliverAnyHash
    \/ DoApproveMilestone
    \/ DoDisputeMilestone
    \/ DoResolveDispute
    \/ DoCancelTask

SpecHashes == Init /\ [][NextHashes]_vars

\* requests to the paywalled routes; the cache is cut off at MaxPayments
DoRequest ==
    \E e \in Endpoints, h \in Headers, now \in Timestamps :
        /\ Len(verifiedPayments) < MaxPayments
        /\ paywall(PriceOf(e), e, h, now)

NextPaywall == DoRequest

SpecPaywall == InitRating /\ [][NextPaywall]_vars

TypeOK ==
    /\ taskCounter \in 0 .. MaxTasks
    /\ \A t \in TaskIds : tasks[t].releasedAmount >= 0
    /\ \A h \in Holders : balances[h] >= 0


\* ------------------------------------------------- vocabulary of the claims
Created(t) == t < taskCounter

DoneStatuses == {"Approved", "Released"}

\* every milestone 0 .. milestoneCount-1 of task t is Approved or Released
EveryMilestoneDone(t) ==
    \A i \in MIdx :
        i < tasks[t].milestoneCount => milestones[t][i].status \in DoneStatuses

\* sum of the amounts of the Approved or Released milestones of task t
DoneAmount(t) ==
    SumSeq([k \in 1 .. tasks[t].milestoneCount |->
                IF milestones[t][k - 1].status \in DoneStatuses
                THEN milestones[t][k - 1].amount ELSE 0])

\* floor(a * 150 / 10000), stated without the division
FloorFee(a) ==
    CHOOSE f \in 0 .. a : f * 10000 <= a * 150 /\ (f + 1) * 10000 > a * 150

\* the step is a successful call of op (last' names it)
Did(op) == last'.op = op

\* the step pays a milestone to the worker
PaysWorker ==
    \/ Did("approveMilestone")
    \/ Did("resolveDispute") /\ last'.fav

TaskOps == {"acceptTask", "deliverMilestone", "approveMilestone",
            "disputeMilestone", "resolveDispute", "cancelTask"}

\* ------------------------------------------------------------------ claims

\* C1: for every created task the tokens that left escrow on its behalf
\* (payouts, fees, refunds) never exceed its totalAmount.
C1_Conservation ==
    \A t \in TaskIds : Created(t) => outflow[t] <= tasks[t].totalAmount

\* C2: releasedAmount equals the sum of the amounts of the task's Approved or
\* Released milestones, and never exceeds totalAmount.
C2_ReleasedIsDoneSum ==
    \A t \in TaskIds :
        Created(t) =>
            /\ tasks[t].releasedAmount = DoneAmount(t)
            /\ tasks[t].releasedAmount <= tasks[t].totalAmount

\* C3: a created task is Completed exactly when every one of its milestones
\* is Approved or Released, this holds right after every step, and a
\* Completed task keeps that status.
C3_CompletedIffAllDone ==
    [][\A t \in TaskIds :
          /\ Created(t)' =>
                ((tasks'[t].status = "Completed") <=> EveryMilestoneDone(t)')
          /\ (Created(t) /\ tasks[t].status = "Completed") =>
                tasks'[t].status = "Completed"]_vars

C3_Witness ==
    \E t \in TaskIds :
        /\ Created(t)
        /\ tasks[t].status = "Completed"
        /\ tasks[t].milestoneCount = 2
        /\ last.op \in {"approveMilestone", "resolveDispute"}
        /\ last.taskId = t

\* C4: a Completed task has releasedAmount = totalAmount.
C4_CompletedFullyReleased ==
    \A t \in TaskIds :
        (Created(t) /\ tasks[t].status = "Completed") =>
            tasks[t].releasedAmount = tasks[t].totalAmount

\* C5 as claimed: every step that pays a milestone of amount a to the worker
\* raises the worker's balance by a - fee and the fee collector's by fee and
\* lowers the escrow's by a, with fee = floor(a * 150 / 10000) <= 1.5% of a.
C5_PayoutSplit ==
    [][PaysWorker =>
          LET t == last'.taskId
              a == milestones[t][last'.idx].amount
              w == tasks[t].worker
              fee == FloorFee(a)
          IN  /\ balances'[w] = balances[w] + (a - fee)
              /\ balances'[feeCollector] = balances[feeCollector] + fee
              /\ balances'[EscrowAddr] = balances[EscrowAddr] - a
              /\ fee * 10000 <= a * 150]_vars

\* C5 amended: the same, where the worker is not the fee collector; a worker
\* who is the fee collector receives both parts, a in total.
C5_PayoutSplitDistinct ==
    [][PaysWorker =>
          LET t == last'.taskId
              a == milestones[t][last'.idx].amount
              w == tasks[t].worker
              fee == FloorFee(a)
          IN  /\ w # feeCollector =>
                    /\ balances'[w] = balances[w] + (a - fee)
                    /\ balances'[feeCollector] = balances[feeCollector] + fee
              /\ w = feeCollector => balances'[w] = balances[w] + a
              /\ balances'[EscrowAddr] = balances[EscrowAddr] - a
              /\ \A h \in Addr \ {w, feeCollector} : balances'[h] = balances[h]
              /\ fee * 10000 <= a * 150]_vars

C5_Witness ==
    /\ last.op \in {"approveMilestone", "resolveDispute"}
    /\ last.op = "resolveDispute" => last.fav
    /\ milestones[last.taskId][last.idx].amount = 100
    /\ tasks[last.taskId].worker # feeCollector
    /\ balances[feeCollector] = 1

\* C6: the status of a created task changes only Open->InProgress by
\* acceptTask, Open->Cancelled by cancelTask, InProgress->Completed by
\* approveMilestone, InProgress->Disputed by disputeMilestone and
\* Disputed->InProgress or Disputed->Completed by resolveDispute; it is never
\* Accepted, and Completed and Cancelled are never left.
LegalStatusMoves ==
    {<<"Open", "InProgress", "acceptTask">>,
     <<"Open", "Cancelled", "cancelTask">>,
     <<"InProgress", "Completed", "approveMilestone">>,
     <<"InProgress", "Disputed", "disputeMilestone">>,
     <<"Disputed", "InProgress", "resolveDispute">>,
     <<"Disputed", "Completed", "resolveDispute">>}

C6_StatusMachine ==
    [][\A t \in TaskIds :
          Created(t) =>
              /\ tasks'[t].status # "Accepted"
              /\ tasks'[t].status # tasks[t].status =>
                    /\ <<tasks[t].status, tasks'[t].status, last'.op>>
                           \in LegalStatusMoves
                    /\ last'.taskId = t
              /\ tasks[t].status \in {"Completed", "Cancelled"} =>
                    tasks'[t].status = tasks[t].status]_vars

C6_Witness ==
    \E t \in TaskIds :
        /\ Created(t)
        /\ tasks[t].status = "Completed"
        /\ last.op = "resolveDispute"
        /\ last.taskId = t

\* C7: cancelTask succeeds only for the client of an Open task; it moves
\* exactly totalAmount from the escrow to the client and makes the task
\* Cancelled; afterwards no call on that task succeeds and the task and its
\* milestones never change.
C7_CancelOnlyOpen ==
    [][/\ Did("cancelTask") =>
             LET t == last'.taskId
                 c == tasks[t].client
             IN  /\ last'.caller = c
                 /\ tasks[t].status = "Open"
                 /\ balances'[c] = balances[c] + tasks[t].totalAmount
                 /\ balances'[EscrowAddr] =
                        balances[EscrowAddr] - tasks[t].totalAmount
                 /\ \A h \in Addr \ {c} : balances'[h] = balances[h]
                 /\ tasks'[t].status = "Cancelled"
       /\ \A t \in TaskIds :
             (Created(t) /\ tasks[t].status = "Cancelled") =>
                 /\ tasks'[t] = tasks[t]
                 /\ milestones'[t] = milestones[t]
                 /\ last'.op \in TaskOps => last'.taskId # t]_vars

C7_Witness ==
    \E t \in TaskIds :
        /\ Created(t)
        /\ tasks[t].status = "Cancelled"
        /\ last.op = "cancelTask"
        /\ last.taskId = t
        /\ balances[tasks[t].client] >= tasks[t].totalAmount

\* C8: deliverMilestone succeeds only for the recorded worker;
\* approveMilestone, disputeMilestone and cancelTask only for the client;
\* resolveDispute only for the admin.
C8_Authorization ==
    [][/\ Did("deliverMilestone") =>
             last'.caller = tasks[last'.taskId].worker
       /\ (Did("approveMilestone") \/ Did("disputeMilestone")
             \/ Did("cancelTask")) =>
             last'.caller = tasks[last'.taskId].client
       /\ Did("resolveDispute") => last'.caller = admin]_vars

C8_Witness ==
    /\ last.op = "resolveDispute"
    /\ last.caller = admin
    /\ last.caller # tasks[last.taskId].client
    /\ last.caller # tasks[last.taskId].worker

\* C9 as claimed: a dispute resolved against the worker on a milestone of
\* amount a raises the client's balance by a, leaves the worker's and the fee
\* collector's balances alone, returns the milestone to Pending, raises
\* releasedAmount by a and the worker's disputes-lost count by 1.
C9_RefundToClient ==
    [][(Did("resolveDispute") /\ ~last'.fav) =>
          LET t == last'.taskId
              i == last'.idx
              a == milestones[t][i].amount
              c == tasks[t].client
              w == tasks[t].worker
          IN  /\ milestones[t][i].status = "Disputed"
              /\ balances'[c] = balances[c] + a
              /\ balances'[w] = balances[w]
              /\ balances'[feeCollector] = balances[feeCollector]
              /\ milestones'[t][i].status = "Pending"
              /\ tasks'[t].releasedAmount = tasks[t].releasedAmount + a
              /\ agentDisputesLost'[w] = agentDisputesLost[w] + 1]_vars

\* C9 amended: the same, where "the fee collector receives nothing" is said
\* of a fee collector that is not the client: every balance other than the
\* client's and the escrow's is unchanged.
C9_RefundToClientOnly ==
    [][(Did("resolveDispute") /\ ~last'.fav) =>
          LET t == last'.taskId
              i == last'.idx
              a == milestones[t][i].amount
              c == tasks[t].client
              w == tasks[t].worker
          IN  /\ milestones[t][i].status = "Disputed"
              /\ balances'[c] = balances[c] + a
              /\ balances'[EscrowAddr] = balances[EscrowAddr] - a
              /\ \A h \in Addr \ {c} : balances'[h] = balances[h]
              /\ w # c
              /\ milestones'[t][i].status = "Pending"
              /\ tasks'[t].releasedAmount = tasks[t].releasedAmount + a
              /\ agentDisputesLost'[w] = agentDisputesLost[w] + 1]_vars

C9_Witness ==
    /\ last.op = "resolveDispute"
    /\ ~last.fav
    /\ milestones[last.taskId][last.idx].status = "Pending"
    /\ agentDisputesLost[tasks[last.taskId].worker] = 1
    /\ tasks[last.taskId].client # feeCollector

\* C10: in the step that moves a task to Completed, a registered worker's
\* reputation profile gains 1 in tasksCompleted and the task's final
\* releasedAmount in totalEarned.
C10_CompletionRecorded ==
    [][\A t \in TaskIds :
          (/\ Created(t)
           /\ tasks[t].status # "Completed"
           /\ tasks'[t].status = "Completed"
           /\ profiles[tasks[t].worker].exists) =>
              LET w == tasks[t].worker
              IN  /\ profiles'[w].tasksCompleted =
                         profiles[w].tasksCompleted + 1
                  /\ profiles'[w].totalEarned =
                         profiles[w].totalEarned + tasks'[t].releasedAmount]_vars


\* C11: in a step in which a dispute is resolved against a registered
\* worker, the worker's reputation profile gains exactly 1 in disputesLost.
C11_LostDisputeRecorded ==
    [][(Did("resolveDispute") /\ ~last'.fav
            /\ profiles[tasks[last'.taskId].worker].exists) =>
          LET w == tasks[last'.taskId].worker
          IN  profiles'[w].disputesLost = profiles[w].disputesLost + 1]_vars

\* C12: resolveDispute succeeds only on a Disputed milestone of a Disputed
\* task, and leaves the task InProgress, or Completed exactly when all its
\* milestones are then Approved or Released; never Disputed.
C12_ResolveLeavesDisputed ==
    [][Did("resolveDispute") =>
          LET t == last'.taskId
          IN  /\ tasks[t].status = "Disputed"
              /\ milestones[t][last'.idx].status = "Disputed"
              /\ tasks'[t].status \in {"InProgress", "Completed"}
              /\ (tasks'[t].status = "Completed") <=>
                     \A i \in MIdx :
                         i < tasks'[t].milestoneCount =>
                             milestones'[t][i].status \in DoneStatuses
              /\ milestones'[t][last'.idx].status =
                     IF last'.fav THEN "Released" ELSE "Pending"]_vars

C12_Witness ==
    /\ last.op = "resolveDispute"
    /\ tasks[last.taskId].status = "InProgress"
    /\ tasks[last.taskId].milestoneCount = 2
    /\ \E i \in MIdx : milestones[last.taskId][i].status = "Released"

\* C13: createTask succeeds exactly when the arrays have the same length
\* between 1 and 10, every amount is positive and the caller can pay the
\* sum (and, in this model, an id is left); it moves the sum from the caller
\* to the escrow and leaves a new Open task of the caller with no worker,
\* totalAmount = sum, releasedAmount = 0 and every milestone Pending with a
\* zero hash; otherwise the counter, the tasks and the balances stay.
CreateTaskLegal(c, n, a) ==
    /\ taskCounter < MaxTasks
    /\ n = Len(a)
    /\ n >= 1 /\ n <= 10
    /\ \A k \in 1 .. Len(a) : a[k] > 0
    /\ balances[c] >= SumSeq(a)

C13_CreateTask ==
    [][/\ \A c \in Addr, n \in 0 .. MaxMilestones, a \in AmountArrays :
             (ENABLED createTask(c, n, a)) <=> CreateTaskLegal(c, n, a)
       /\ Did("createTask") =>
             LET t == last'.taskId
                 c == last'.caller
                 total == tasks'[t].totalAmount
             IN  /\ t = taskCounter /\ taskCounter' = taskCounter + 1
                 /\ total = SumSeq([k \in 1 .. tasks'[t].milestoneCount |->
                                       milestones'[t][k - 1].amount])
                 /\ balances'[c] = balances[c] - total
                 /\ balances'[EscrowAddr] = balances[EscrowAddr] + total
                 /\ tasks'[t].status = "Open"
                 /\ tasks'[t].client = c
                 /\ tasks'[t].worker = NoAddr
                 /\ tasks'[t].releasedAmount = 0
                 /\ tasks'[t].milestoneCount \in 1 .. 10
                 /\ \A i \in MIdx :
                       i < tasks'[t].milestoneCount =>
                           /\ milestones'[t][i].status = "Pending"
                           /\ milestones'[t][i].amount > 0
                           /\ milestones'[t][i].deliverableHash = 0
       /\ ~Did("createTask") =>
             /\ taskCounter' = taskCounter
             /\ \A t \in TaskIds : ~Created(t) =>
                    tasks'[t].client = tasks[t].client]_vars

\* C14: acceptTask succeeds only on an Open task and for a caller other
\* than its client; it records the caller as worker and makes the task
\* InProgress; a created task that has left Open is never accepted again and
\* keeps its worker.
C14_AcceptOnce ==
    [][/\ Did("acceptTask") =>
             LET t == last'.taskId
             IN  /\ tasks[t].status = "Open"
                 /\ last'.caller # tasks[t].client
                 /\ tasks'[t].worker = last'.caller
                 /\ tasks'[t].status = "InProgress"
       /\ \A t \in TaskIds :
             (Created(t) /\ tasks[t].status # "Open") =>
                 /\ tasks'[t].worker = tasks[t].worker
                 /\ ~(Did("acceptTask") /\ last'.taskId = t)]_vars

C14_Witness ==
    \E t \in TaskIds :
        /\ Created(t)
        /\ tasks[t].status = "Completed"
        /\ tasks[t].worker \in Addr
        /\ tasks[t].worker # tasks[t].client

\* C15: no operation succeeds on an id that createTask has not assigned:
\* the slot of such an id stays untouched, and an Open task carries no
\* worker.
C15_UnknownTaskUntouched ==
    \A t \in TaskIds :
        /\ ~Created(t) => tasks[t] = EmptyTask
        /\ (Created(t) /\ tasks[t].status = "Open") =>
               tasks[t].worker = NoAddr


\* the caller is the linked escrow identity or the reputation admin
Authorized(c) == c = escrowContract \/ c = repAdmin

\* the profile table after the counters f and g of agent a grew by n and m
Bumped(a, f, n, g, m) ==
    [profiles EXCEPT ![a] = [h \in DOMAIN @ |->
        IF h = f THEN @[h] + n ELSE IF h = g THEN @[h] + m ELSE @[h]]]

\* C18: recordTaskCompletion, recordTaskCreation and recordX402Service
\* succeed only for the linked escrow identity or the admin and a registered
\* agent (no such call is possible otherwise); a successful call adds exactly
\* the given amounts to the two corresponding counters of the target profile
\* and changes nothing else in the profile table or the registry.
C18_RecordersOnly ==
    [][/\ \A c \in Addr, a \in Addr, e \in RecordAmounts, n \in CallCounts :
             (~Authorized(c) \/ ~profiles[a].exists) =>
                 /\ ~ENABLED recordTaskCompletion(c, a, e)
                 /\ ~ENABLED recordTaskCreation(c, a, e)
                 /\ ~ENABLED recordX402Service(c, a, n, e)
       /\ (\/ Did("recordTaskCompletion")
           \/ Did("recordTaskCreation")
           \/ Did("recordX402Service")) =>
             /\ Authorized(last'.caller)
             /\ profiles[last'.agent].exists
             /\ registeredAgents' = registeredAgents
       /\ Did("recordTaskCompletion") =>
             profiles' = Bumped(last'.agent, "tasksCompleted", 1,
                                "totalEarned", last'.x)
       /\ Did("recordTaskCreation") =>
             profiles' = Bumped(last'.agent, "tasksPosted", 1,
                                "totalSpent", last'.x)
       /\ Did("recordX402Service") =>
             profiles' = Bumped(last'.agent, "x402CallsServed", last'.x,
                                "x402Revenue", last'.y)]_vars

\* the linked identity (not the admin) has reported paid service of the
\* second of two registered agents
C18_Witness ==
    /\ last.op = "recordX402Service"
    /\ last.caller # repAdmin
    /\ last.y > 0
    /\ Len(registeredAgents) = 2
    /\ last.agent = registeredAgents[2]


\* the profile registerAgent creates: the name, and every number zero
FreshProfile(n, ts) ==
    [name |-> n, registeredAt |-> ts, exists |-> TRUE, tasksCompleted |-> 0, tasksPosted |-> 0,
     totalEarned |-> 0, totalSpent |-> 0, avgRating |-> 0, ratingCount |-> 0,
     disputesWon |-> 0, disputesLost |-> 0, x402CallsServed |-> 0,
     x402Revenue |-> 0]

\* C19: registerAgent(name) is possible exactly when the caller is not yet
\* registered and 1 <= len(name) <= 64 (and, in this model, the registry has
\* room); a successful call creates an all-zero profile for the caller and
\* appends the caller to the registry, changing no other profile; it never
\* succeeds for a registered caller, and no other step changes the registry
\* or unregisters or renames a profile.
C19_RegisterAgent ==
    [][/\ \A c \in Addr, n \in LimitNames :
             (\E ts \in Timestamps : ENABLED registerAgent(c, n, ts)) <=>
                 /\ Len(registeredAgents) < MaxRegistered
                 /\ ~profiles[c].exists
                 /\ Len(n) >= 1 /\ Len(n) <= 64
       /\ Did("registerAgent") =>
             LET c == last'.caller
             IN  /\ ~profiles[c].exists
                 /\ \E n \in LimitNames, ts \in Timestamps :
                       /\ Len(n) >= 1 /\ Len(n) <= 64
                       /\ profiles' =
                              [profiles EXCEPT ![c] = FreshProfile(n, ts)]
                 /\ registeredAgents' = registeredAgents \o <<c>>
       /\ ~Did("registerAgent") =>
             /\ registeredAgents' = registeredAgents
             /\ \A a \in Addr :
                   /\ profiles'[a].exists = profiles[a].exists
                   /\ profiles'[a].name = profiles[a].name]_vars

\* a second agent registered, under a 64-byte name, after the first one had
\* been rated
C19_Witness ==
    /\ last.op = "registerAgent"
    /\ Len(registeredAgents) = 2
    /\ Len(profiles[registeredAgents[2]].name) = 64
    /\ profiles[registeredAgents[1]].ratingCount > 0

\* floor(n / d) by its defining inequalities
FloorDiv(n, d) == CHOOSE q \in 0 .. n : q * d <= n /\ n < (q + 1) * d

\* C20: submitRating(agent, rating) is possible exactly when 1 <= rating <=
\* 100, caller # agent and the agent is registered (and, in this model, the
\* agent has fewer than MaxRatings ratings); a successful call sets avgRating
\* to floor((avgRating * ratingCount + rating) / (ratingCount + 1)), adds 1
\* to ratingCount and changes nothing else in any profile or the registry.
C20_SubmitRating ==
    [][/\ \A c \in Addr, a \in Addr, r \in RatingInputs :
             (ENABLED submitRating(c, a, r)) <=>
                 /\ profiles[a].ratingCount < MaxRatings
                 /\ r >= 1 /\ r <= 100
                 /\ c # a
                 /\ profiles[a].exists
       /\ Did("submitRating") =>
             LET a == last'.agent
                 r == last'.x
                 old == profiles[a]
             IN  /\ profiles' = [profiles EXCEPT ![a] =
                        [old EXCEPT
                            !.avgRating = FloorDiv(
                                old.avgRating * old.ratingCount + r,
                                old.ratingCount + 1),
                            !.ratingCount = old.ratingCount + 1]]
                 /\ registeredAgents' = registeredAgents]_vars

\* ratings 1 and 50 gave the truncated mean 25, with a second rated agent
C20_Witness ==
    /\ last.op = "submitRating"
    /\ profiles[last.agent].ratingCount = 2
    /\ profiles[last.agent].avgRating = 25
    /\ \E b \in Addr : b # last.agent /\ profiles[b].ratingCount > 0


\* all tokens in existence
TokenSupply ==
    balances[EscrowAddr] + balances["admin"] + balances["alice"]
        + balances["bob"]

\* no call that has to transfer more than its payer holds is possible, a
\* Delivered milestone that cannot be paid can still be disputed, and no
\* balance is negative
UnfundedCallsImpossible ==
    /\ \A c \in Addr, t \in TaskIds, i \in MIdx :
          balances[EscrowAddr] < milestones[t][i].amount =>
              /\ ~ENABLED approveMilestone(c, t, i)
              /\ \A f \in BOOLEAN : ~ENABLED resolveDispute(c, t, i, f)
    /\ \A c \in Addr, t \in TaskIds :
          balances[EscrowAddr] < tasks[t].totalAmount =>
              ~ENABLED cancelTask(c, t)
    /\ \A c \in Addr, n \in 0 .. MaxMilestones, a \in AmountArrays :
          balances[c] < SumSeq(a) => ~ENABLED createTask(c, n, a)
    /\ \A t \in TaskIds, i \in MIdx :
          (/\ tasks[t].status = "InProgress"
           /\ milestones[t][i].status = "Delivered"
           /\ balances[EscrowAddr] < milestones[t][i].amount) =>
              ENABLED disputeMilestone(tasks[t].client, t, i)
    /\ \A h \in Holders : balances[h] >= 0

\* a step that marks a milestone Approved or Released, or a task Cancelled,
\* also moves the amount out of the escrow; no step makes or loses tokens
WholeTransfers ==
    /\ \A t \in TaskIds, i \in MIdx :
          (/\ milestones'[t][i].status \in DoneStatuses
           /\ milestones[t][i].status \notin DoneStatuses) =>
              /\ balances'[EscrowAddr] =
                     balances[EscrowAddr] - milestones[t][i].amount
              /\ tasks'[t].releasedAmount =
                     tasks[t].releasedAmount + milestones[t][i].amount
    /\ \A t \in TaskIds :
          (tasks'[t].status = "Cancelled" /\ tasks[t].status # "Cancelled")
              => balances'[EscrowAddr] =
                     balances[EscrowAddr] - tasks[t].totalAmount
    /\ TokenSupply' = TokenSupply

\* C16: a call that cannot be carried out wholly is not carried out at all:
\* when the escrow holds less than the amount a call has to transfer, or the
\* caller of createTask holds less than the deposit, the call is impossible
\* (approveMilestone, resolveDispute, cancelTask, createTask), so no state is
\* left half-changed: a milestone is Approved or Released, and a task
\* Cancelled, only in a step in which the escrow balance falls by the amount;
\* no balance is negative and no token is made or lost; and a client whose
\* Delivered milestone cannot be paid can still dispute it.
C16_AllOrNothing == []UnfundedCallsImpossible /\ [][WholeTransfers]_vars

\* the client's Delivered milestone cannot be approved: the escrow holds less
\* than its amount, after a rating was given as well
C16_Witness ==
    \E t \in TaskIds, i \in MIdx :
        /\ Created(t)
        /\ tasks[t].status = "InProgress"
        /\ milestones[t][i].status = "Delivered"
        /\ balances[EscrowAddr] < milestones[t][i].amount
        /\ RatingsMade > 0

\* C17: in every state, acceptTask by the client of a created task and
\* submitRating by the rated agent itself are impossible, whatever the task's
\* status, the rating and the registration; so the last successful acceptTask
\* was not by the task's client and the last successful submitRating was not
\* by the rated agent.
C17_NoSelfDealing ==
    /\ \A t \in TaskIds :
          Created(t) => ~ENABLED acceptTask(tasks[t].client, t)
    /\ \A a \in Addr, r \in RatingInputs : ~ENABLED submitRating(a, a, r)
    /\ last.op = "acceptTask" => last.caller # tasks[last.taskId].client
    /\ last.op = "submitRating" => last.caller # last.agent

\* a registered client with a rating and a disputed task, next to an
\* unregistered identity
C17_Witness ==
    \E t \in TaskIds :
        /\ Created(t)
        /\ tasks[t].status = "Disputed"
        /\ profiles[tasks[t].client].exists
        /\ profiles[tasks[t].client].ratingCount > 0
        /\ \E b \in Addr : ~profiles[b].exists


\* the ids from offset on that are created and Open
OpenFrom(offset) ==
    {i \in TaskIds : i >= offset /\ i < taskCounter /\ tasks[i].status = "Open"}

\* s lists, in ascending order and without repetition, the smallest
\* elements of S: all of them, or limit of them when S has more
FirstOf(s, S, limit) ==
    /\ \A k \in 1 .. Len(s) : s[k] \in S
    /\ \A k \in 1 .. Len(s) - 1 : s[k] < s[k + 1]
    /\ Len(s) = IF Cardinality(S) < limit THEN Cardinality(S) ELSE limit
    /\ \A x \in S : (\E k \in 1 .. Len(s) : s[k] = x)
                        \/ (\A k \in 1 .. Len(s) : s[k] < x)

\* C26: getOpenTasks(offset, limit) returns, in ascending order, the first
\* limit ids i (all when fewer exist) with offset <= i < taskCounter whose
\* status is Open: never a task that is not Open, an id never created, or
\* more than limit ids.
C26_OpenTasksPage ==
    \A offset \in 0 .. MaxTasks + 1, limit \in 0 .. MaxTasks + 1 :
        FirstOf(getOpenTasks(offset, limit), OpenFrom(offset), limit)

\* the scan passes over a task that is no longer Open and returns the Open
\* one behind it
C26_Witness ==
    /\ taskCounter = MaxTasks
    /\ tasks[0].status = "InProgress"
    /\ tasks[1].status = "Open"
    /\ getOpenTasks(0, 1) = <<1>>

\* sum of the amounts of the milestones 0 .. n-1 of task t
RECURSIVE AmountBelow(_, _)
AmountBelow(t, n) ==
    IF n = 0 THEN 0 ELSE milestones[t][n - 1].amount + AmountBelow(t, n - 1)

\* the amounts of every created task add up to its totalAmount and are
\* positive
AmountsAddUp ==
    \A t \in TaskIds :
        Created(t) =>
            /\ tasks[t].milestoneCount >= 1
            /\ AmountBelow(t, tasks[t].milestoneCount) = tasks[t].totalAmount
            /\ \A i \in MIdx :
                  i < tasks[t].milestoneCount => milestones[t][i].amount > 0

\* no step changes an amount, the totalAmount or the milestoneCount of a
\* created task
AmountsFrozen ==
    \A t \in TaskIds :
        Created(t) =>
            /\ tasks'[t].totalAmount = tasks[t].totalAmount
            /\ tasks'[t].milestoneCount = tasks[t].milestoneCount
            /\ \A i \in MIdx :
                  milestones'[t][i].amount = milestones[t][i].amount

\* C27: for every created task the amounts of its milestones add up to its
\* totalAmount, each amount is positive, and no operation after createTask
\* changes an amount, the totalAmount or the milestoneCount.
C27_AmountsFixed == []AmountsAddUp /\ [][AmountsFrozen]_vars

\* a task of two milestones went through a refund and a payment
C27_Witness ==
    \E t \in TaskIds :
        /\ Created(t)
        /\ tasks[t].milestoneCount = 2
        /\ tasks[t].releasedAmount > tasks[t].totalAmount


\* task t was accepted and its worker has delivered nothing
Idle(t) ==
    /\ Created(t)
    /\ tasks[t].status = "InProgress"
    /\ \A i \in MIdx : milestones[t][i].status = "Pending"

\* what the escrow still owes on the tasks that are neither Cancelled nor
\* Completed
RECURSIVE OwedBelow(_)
OwedBelow(n) ==
    IF n = 0 THEN 0
    ELSE (IF tasks[n - 1].status \in {"Cancelled", "Completed"} THEN 0
          ELSE tasks[n - 1].totalAmount - tasks[n - 1].releasedAmount)
         + OwedBelow(n - 1)

\* on an idle task no call of the client or of a third party is possible,
\* nothing of it was released, and the escrow holds what it owes
IdleLocked ==
    /\ \A t \in TaskIds :
          Idle(t) =>
              /\ \A c \in Addr :
                    /\ ~ENABLED cancelTask(c, t)
                    /\ ~ENABLED acceptTask(c, t)
                    /\ \A i \in MIdx :
                          /\ ~ENABLED approveMilestone(c, t, i)
                          /\ ~ENABLED disputeMilestone(c, t, i)
                          /\ c # tasks[t].worker =>
                                \A h \in Hashes :
                                    ~ENABLED deliverMilestone(c, t, i, h)
              /\ tasks[t].releasedAmount = 0
              /\ outflow[t] = 0
              /\ balances[EscrowAddr] >= tasks[t].totalAmount
    /\ balances[EscrowAddr] >= OwedBelow(taskCounter)

\* an idle task changes only by a delivery of its worker
IdleStays ==
    \A t \in TaskIds :
        Idle(t) =>
            \/ /\ Did("deliverMilestone")
               /\ last'.taskId = t
               /\ last'.caller = tasks[t].worker
            \/ /\ tasks'[t] = tasks[t]
               /\ milestones'[t] = milestones[t]
               /\ outflow'[t] = outflow[t]

OpenRaceGuards ==
    \A t \in TaskIds :
        Created(t) =>
            IF tasks[t].status = "Open"
            THEN /\ \A c \in Addr :
                       (ENABLED acceptTask(c, t)) <=> c # tasks[t].client
                 /\ \A c \in Addr :
                       (ENABLED cancelTask(c, t)) <=>
                           /\ c = tasks[t].client
                           /\ balances[EscrowAddr] >= tasks[t].totalAmount
            ELSE \A c \in Addr :
                    /\ ~ENABLED acceptTask(c, t)
                    /\ ~ENABLED cancelTask(c, t)

\* whichever of the two calls succeeds takes the task out of Open for good:
\* an accepted task keeps its deposit in the books, a cancelled one keeps
\* the status Cancelled and is never made InProgress
OpenRaceSteps ==
    \A t \in TaskIds :
        Created(t) =>
            /\ tasks[t].status # "Open" => tasks'[t].status # "Open"
            /\ (Did("acceptTask") /\ last'.taskId = t) =>
                  /\ tasks[t].status = "Open"
                  /\ tasks'[t].status = "InProgress"
                  /\ balances' = balances
                  /\ outflow'[t] = outflow[t]
            /\ (Did("cancelTask") /\ last'.taskId = t) =>
                  /\ tasks[t].status = "Open"
                  /\ tasks'[t].status = "Cancelled"
                  /\ tasks'[t].worker = tasks[t].worker
            /\ tasks[t].status = "Cancelled" => tasks'[t] = tasks[t]

DeliveredRaceGuards ==
    \A t \in TaskIds, i \in MIdx, c \in Addr :
        /\ (ENABLED approveMilestone(c, t, i)) =>
              /\ milestones[t][i].status = "Delivered"
              /\ tasks[t].status = "InProgress"
              /\ c = tasks[t].client
        /\ (ENABLED disputeMilestone(c, t, i)) =>
              /\ milestones[t][i].status = "Delivered"
              /\ c = tasks[t].client
        /\ (/\ Created(t)
            /\ tasks[t].status = "InProgress"
            /\ milestones[t][i].status = "Delivered"
            /\ c = tasks[t].client) =>
              /\ ENABLED disputeMilestone(c, t, i)
              /\ (ENABLED approveMilestone(c, t, i)) <=>
                     balances[EscrowAddr] >= milestones[t][i].amount

\* an approval pays and leaves the milestone Approved for good; a dispute
\* pays nothing and leaves it Disputed
DeliveredRaceSteps ==
    \A t \in TaskIds, i \in MIdx :
        /\ (Did("approveMilestone") /\ last'.taskId = t /\ last'.idx = i) =>
              /\ milestones[t][i].status = "Delivered"
              /\ milestones'[t][i].status = "Approved"
              /\ outflow'[t] = outflow[t] + milestones[t][i].amount
        /\ (Did("disputeMilestone") /\ last'.taskId = t /\ last'.idx = i) =>
              /\ milestones[t][i].status = "Delivered"
              /\ milestones'[t][i].status = "Disputed"
              /\ balances' = balances
              /\ outflow' = outflow
        /\ milestones[t][i].status = "Approved" =>
              milestones'[t][i] = milestones[t][i]

\* C30: of an approveMilestone and a disputeMilestone on the same Delivered
\* milestone of an InProgress task, whichever is carried out first succeeds
\* and makes the other impossible (the milestone is no longer Delivered); a
\* dispute pays nothing, and an Approved milestone is never approved,
\* disputed or paid again.
C30_ApproveDisputeRace == []DeliveredRaceGuards /\ [][DeliveredRaceSteps]_vars

\* the first of two milestones was approved while the second is Delivered
C30_Witness ==
    /\ last.op = "approveMilestone"
    /\ tasks[last.taskId].status = "InProgress"
    /\ milestones[last.taskId][last.idx].status = "Approved"
    /\ \E i \in MIdx : milestones[last.taskId][i].status = "Delivered"


\* avgRating of agent a after the ratings r1 and then r2
RatedTwice(a, r1, r2) ==
    LET p == profiles[a]
    IN  RunningAverage(RunningAverage(p.avgRating, p.ratingCount, r1),
                       p.ratingCount + 1, r2)

\* C21: for every registered profile that can take two more ratings and
\* every pair of valid ratings r1, r2, submitting r1 then r2 leaves the same
\* avgRating as submitting r2 then r1.
C21_RatingOrderIndependent ==
    \A a \in Addr, r1 \in RatingInputs, r2 \in RatingInputs :
        (/\ profiles[a].exists
         /\ profiles[a].ratingCount + 2 <= MaxRatings
         /\ r1 >= 1 /\ r1 <= 100 /\ r2 >= 1 /\ r2 <= 100) =>
            RatedTwice(a, r1, r2) = RatedTwice(a, r2, r1)


Least(a, b) == IF a <= b THEN a ELSE b

\* max(0, avgRating + min(tasksCompleted, 10) - 5 * disputesLost), or 0 for
\* an agent that is unregistered or was never rated
ScoreOf(a) ==
    LET p == profiles[a]
        raw == p.avgRating + Least(p.tasksCompleted, 10) - 5 * p.disputesLost
    IN  IF ~p.exists \/ p.ratingCount = 0 THEN 0
        ELSE IF raw < 0 THEN 0 ELSE raw

\* C22: in every state reached by registrations, ratings, recorded
\* completions and recorded disputes, getTrustScore(agent) is 0 for an agent
\* that is unregistered or has no rating, and otherwise
\* max(0, avgRating + min(tasksCompleted, 10) - 5 * disputesLost); it is
\* never negative.
C22_TrustScore ==
    \A a \in Addr : getTrustScore(a) = ScoreOf(a) /\ getTrustScore(a) >= 0

\* ratings 80 and 90, five completions and one lost dispute give 85
C22_Witness ==
    \E a \in Addr :
        /\ profiles[a].avgRating = 85
        /\ profiles[a].ratingCount = 2
        /\ profiles[a].tasksCompleted = 5
        /\ profiles[a].disputesLost = 1
        /\ getTrustScore(a) = 85

\* C25: getLeaderboard(offset, limit) returns the empty page when offset is
\* at or beyond the number of registered agents; otherwise the agents at the
\* registry positions offset .. min(offset + limit, total) - 1 in
\* registration order, each with its current trust score at the same index.
C25_LeaderboardPage ==
    \A offset \in 0 .. MaxRegistered + 1, limit \in 0 .. MaxRegistered + 1 :
        LET total == Len(registeredAgents)
            page == getLeaderboard(offset, limit)
            agents == page[1]
            scores == page[2]
        IN  IF offset >= total
            THEN agents = <<>> /\ scores = <<>>
            ELSE /\ Len(agents) = Least(offset + limit, total) - offset
                 /\ Len(scores) = Len(agents)
                 /\ \A k \in 1 .. Len(agents) :
                       /\ agents[k] = registeredAgents[offset + k]
                       /\ scores[k] = getTrustScore(agents[k])

\* the page of the second of two agents with different scores
C25_Witness ==
    /\ Len(registeredAgents) = 2
    /\ getTrustScore(registeredAgents[1]) > getTrustScore(registeredAgents[2])
    /\ getTrustScore(registeredAgents[2]) > 0
    /\ getLeaderboard(1, 2) =
           <<<<registeredAgents[2]>>, <<getTrustScore(registeredAgents[2])>> >>


\* the eight counters that only recorders may change
RecordedCounters ==
    {"tasksCompleted", "tasksPosted", "totalEarned", "totalSpent",
     "disputesWon", "disputesLost", "x402CallsServed", "x402Revenue"}

\* C23: in every step a registered profile stays registered with the same
\* name and registeredAt, none of the eight recorded counters nor ratingCount
\* decreases, and a recorded counter changes only in a step whose caller is
\* the linked escrow identity or the admin.
C23_ProfileMonotone ==
    [][\A a \in Addr :
          /\ profiles[a].exists =>
                /\ profiles'[a].exists
                /\ profiles'[a].name = profiles[a].name
                /\ profiles'[a].registeredAt = profiles[a].registeredAt
          /\ \A f \in RecordedCounters \cup {"ratingCount"} :
                profiles'[a][f] >= profiles[a][f]
          /\ (\E f \in RecordedCounters : profiles'[a][f] # profiles[a][f]) =>
                /\ Authorized(last'.caller)
                /\ last'.op \in {"recordTaskCompletion", "recordTaskCreation",
                                 "recordX402Service", "recordDispute"}]_vars

\* an agent registered at the later time has been rated and reported on by
\* the linked identity
C23_Witness ==
    \E a \in Addr :
        /\ profiles[a].registeredAt = 2
        /\ profiles[a].ratingCount = 1
        /\ profiles[a].x402Revenue > 0
        /\ last.op = "recordX402Service"
        /\ last.caller # repAdmin

\* an authorized caller can always record a dispute, no other caller can
DisputeRecorders ==
    \A c \in Addr, w \in Addr, l \in Addr :
        (ENABLED recordDispute(c, w, l)) <=> Authorized(c)

\* a recorded dispute adds 1 to disputesWon of a registered winner and 1 to
\* disputesLost of a registered loser, and nothing else
DisputeEffect ==
    Did("recordDispute") =>
        LET w == last'.agent
            l == last'.other
        IN  /\ Authorized(last'.caller)
            /\ registeredAgents' = registeredAgents
            /\ \A a \in Addr :
                  profiles'[a] =
                      [profiles[a] EXCEPT
                          !.disputesWon =
                              @ + (IF a = w /\ profiles[a].exists
                                   THEN 1 ELSE 0),
                          !.disputesLost =
                              @ + (IF a = l /\ profiles[a].exists
                                   THEN 1 ELSE 0)]

\* C24: recordDispute(winner, loser) never fails for the linked escrow
\* identity or the admin and always fails for anyone else; it adds 1 to
\* disputesWon of the winner exactly when the winner is registered and 1 to
\* disputesLost of the loser exactly when the loser is registered, creates
\* no profile and changes nothing else.
C24_RecordDispute == []DisputeRecorders /\ [][DisputeEffect]_vars

\* the linked identity recorded a dispute an unregistered identity won
\* against a registered one
C24_Witness ==
    /\ last.op = "recordDispute"
    /\ last.caller # repAdmin
    /\ ~profiles[last.agent].exists
    /\ profiles[last.other].exists
    /\ profiles[last.other].disputesLost = 1

\* the part of task t's deposit that has not left the escrow for task t
Unpaid(t) == tasks[t].totalAmount - outflow[t]

\* C31: tasks are independent: whatever was done on the other tasks, the
\* escrow still holds the part of a created task's deposit that has not left
\* it for that task, so a legal cancelTask of an Open task, and a legal
\* approveMilestone or resolveDispute on a milestone whose amount is still
\* unpaid, never fail for lack of pooled funds.
C31_TaskIndependence ==
    \A t \in TaskIds :
        Created(t) =>
            /\ balances[EscrowAddr] >= Unpaid(t)
            /\ (tasks[t].status = "Open" /\ Unpaid(t) = tasks[t].totalAmount)
                  => ENABLED cancelTask(tasks[t].client, t)
            /\ \A i \in MIdx :
                  (/\ i < tasks[t].milestoneCount
                   /\ milestones[t][i].amount <= Unpaid(t)) =>
                      /\ (/\ tasks[t].status = "InProgress"
                          /\ milestones[t][i].status = "Delivered")
                            => ENABLED approveMilestone(tasks[t].client, t, i)
                      /\ (/\ tasks[t].status = "Disputed"
                          /\ milestones[t][i].status = "Disputed")
                            => \A f \in BOOLEAN :
                                  ENABLED resolveDispute(admin, t, i, f)

\* the request served by this step carries the payment proof's txHash h
Carries(h) ==
    /\ response'.header.kind = "proof"
    /\ response'.header.txHash = h

\* C32: a txHash grants access at most once: once a request carrying txHash h
\* was accepted on a protected endpoint, every later request carrying h,
\* whatever its endpoint, payer and amount, is answered 400 and changes
\* nothing in the cache; a request without an X-PAYMENT header is answered
\* 402 and records nothing.
C32_ReplayProtection ==
    [][/\ \A i \in 1 .. Len(verifiedPayments) :
             Carries(verifiedPayments[i].txHash) =>
                 /\ response'.status = 400
                 /\ verifiedPayments' = verifiedPayments
       /\ response'.header.kind = "absent" =>
             /\ response'.status = 402
             /\ verifiedPayments' = verifiedPayments]_vars

\* C33: disputes stay resolvable: whenever a milestone of a task is Disputed
\* the task is Disputed too, and the admin can resolve that milestone either
\* way provided the escrow holds its amount.
C33_DisputesResolvable ==
    \A t \in TaskIds, i \in MIdx :
        milestones[t][i].status = "Disputed" =>
            /\ tasks[t].status = "Disputed"
            /\ balances[EscrowAddr] >= milestones[t][i].amount =>
                  \A f \in BOOLEAN : ENABLED resolveDispute(admin, t, i, f)

\* the status changes of a milestone and the operation that makes each
MilestoneMoves ==
    {<<"Pending", "Delivered", "deliverMilestone">>,
     <<"Delivered", "Approved", "approveMilestone">>,
     <<"Delivered", "Disputed", "disputeMilestone">>,
     <<"Disputed", "Released", "resolveDispute">>,
     <<"Disputed", "Pending", "resolveDispute">>}

\* a milestone past the task's milestoneCount is Pending
SpareMilestonesPending ==
    \A t \in TaskIds, i \in MIdx :
        i >= tasks[t].milestoneCount => milestones[t][i].status = "Pending"

\* a status change of a milestone is one of MilestoneMoves, made by a call on
\* that milestone; a delivery is made by the worker of an InProgress task on
\* an index below milestoneCount and stores the hash passed; Approved and
\* Released are never left
MilestoneSteps ==
    \A t \in TaskIds, i \in MIdx :
        LET m == milestones[t][i]
            n == milestones'[t][i]
        IN  /\ n.status # m.status =>
                  /\ <<m.status, n.status, last'.op>> \in MilestoneMoves
                  /\ last'.taskId = t
                  /\ last'.idx = i
                  /\ n.status = "Delivered" =>
                        /\ last'.caller = tasks[t].worker
                        /\ tasks[t].status = "InProgress"
                        /\ i < tasks[t].milestoneCount
                        /\ n.deliverableHash = last'.x
            /\ m.status \in {"Approved", "Released"} => n.status = m.status

\* C34: a milestone's status changes only Pending->Delivered
\* (deliverMilestone by the worker of an InProgress task, index below
\* milestoneCount, storing the given hash), Delivered->Approved
\* (approveMilestone), Delivered->Disputed (disputeMilestone),
\* Disputed->Released and Disputed->Pending (resolveDispute); Approved and
\* Released are terminal, and a milestone with index >= milestoneCount never
\* leaves Pending.
C34_MilestoneMachine == []SpareMilestonesPending /\ [][MilestoneSteps]_vars

\* a refunded milestone was delivered again with another hash than the first
\* time, next to a milestone that is Released
C34_Witness ==
    \E t \in TaskIds, i \in MIdx, j \in MIdx :
        /\ last.op = "deliverMilestone"
        /\ last.taskId = t /\ last.idx = i /\ last.x = 2
        /\ agentDisputesLost[tasks[t].worker] = 1
        /\ milestones[t][i].deliverableHash = 2
        /\ milestones[t][j].status = "Released"

\* the step pays a milestone of a task whose worker is w: approveMilestone
\* by the task's client on a Delivered milestone, or resolveDispute in the
\* worker's favour by the admin on a Disputed one
ReleasedTo(w) ==
    LET u == last'.taskId
        m == milestones[u][last'.idx]
    IN  /\ PaysWorker
        /\ tasks[u].worker = w
        /\ Did("approveMilestone") =>
              last'.caller = tasks[u].client /\ m.status = "Delivered"
        /\ Did("resolveDispute") =>
              last'.caller = admin /\ m.status = "Disputed"

\* the step gives a client h the deposit back: cancelTask, or resolveDispute
\* against the worker
RefundedTo(h) ==
    /\ Did("cancelTask") \/ (Did("resolveDispute") /\ ~last'.fav)
    /\ tasks[last'.taskId].client = h

\* task t was created and then accepted: it has a worker
HasWorker(t) ==
    Created(t) /\ tasks[t].status \in {"InProgress", "Disputed", "Completed"}

\* a step that pays a milestone to the worker finds it unpaid and leaves it
\* Approved or Released, which are never left: it is paid at most once
PaidOnce ==
    /\ PaysWorker =>
          /\ milestones[last'.taskId][last'.idx].status \notin DoneStatuses
          /\ milestones'[last'.taskId][last'.idx].status \in DoneStatuses
    /\ \A t \in TaskIds, i \in MIdx :
          milestones[t][i].status \in DoneStatuses =>
              milestones'[t][i].status = milestones[t][i].status

C36_TrueMean ==
    \A a \in Addr :
        profiles[a].ratingCount >= 1 =>
            profiles[a].avgRating =
                FloorDiv(ratingLog[a].sum, profiles[a].ratingCount)

\* the Completed tasks whose worker is w
CompletedBy(w) ==
    {t \in TaskIds :
        Created(t) /\ tasks[t].status = "Completed" /\ tasks[t].worker = w}

\* the amounts of the Approved or Released milestones of the tasks w completed
EarnedBy(w) ==
    SumSeq([k \in 1 .. MaxTasks |->
               IF k - 1 \in CompletedBy(w) THEN DoneAmount(k - 1) ELSE 0])

C38_RatingBounds ==
    \A a \in Addr :
        LET p == profiles[a]
        IN  /\ (p.exists /\ p.ratingCount = 0) => p.avgRating = 0
            /\ p.ratingCount >= 1 =>
                  /\ MIN_RATING <= p.avgRating /\ p.avgRating <= MAX_RATING
                  /\ ratingLog[a].least <= p.avgRating
                  /\ p.avgRating <= ratingLog[a].most
            /\ getTrustScore(a) <= MAX_RATING + VOLUME_CAP

\* an agent rated 100, 1 and 50 in that order: the average lies strictly
\* between the least and the greatest rating
C38_Witness ==
    \E a \in Addr :
        /\ profiles[a].ratingCount = 3
        /\ ratingLog[a] = [sum |-> 151, least |-> 1, most |-> 100]
        /\ last.op = "submitRating" /\ last.x = 50
        /\ profiles[a].avgRating > 1 /\ profiles[a].avgRating < 100

\* the positions of identity a in the registry
PositionsOf(a) == {k \in 1 .. Len(registeredAgents) : registeredAgents[k] = a}

\* the registry holds every registered identity once and no other identity,
\* and its length is getRegisteredAgentCount and the number of profiles
RegistryExact ==
    /\ \A a \in Addr :
          Cardinality(PositionsOf(a)) = IF profiles[a].exists THEN 1 ELSE 0
    /\ \A k \in 1 .. Len(registeredAgents) : registeredAgents[k] \in Addr
    /\ getRegisteredAgentCount = Len(registeredAgents)
    /\ getRegisteredAgentCount =
           Cardinality({a \in Addr : profiles[a].exists})

\* the registry only grows at its end: the agents already in it keep their
\* places
RegistryGrows ==
    /\ Len(registeredAgents') >= Len(registeredAgents)
    /\ \A k \in 1 .. Len(registeredAgents) :
          registeredAgents'[k] = registeredAgents[k]

\* C39: in every reachable state the registry holds each registered identity
\* exactly once and no unregistered identity, its length is
\* getRegisteredAgentCount and the number of existing profiles, and the
\* order of the agents already registered never changes when further agents
\* register.
C39_RegistryConsistent == []RegistryExact /\ [][RegistryGrows]_vars

\* a second agent has just registered behind the first, who was reported on
\* in between; a third identity is not registered
C39_Witness ==
    /\ last.op = "registerAgent"
    /\ Len(registeredAgents) = 2
    /\ registeredAgents[2] = last.caller
    /\ registeredAgents[1] # last.caller
    /\ ReportsMade > 0
    /\ \E a \in Addr : ~profiles[a].exists

\* an accepted task has a worker, who is not the client
WorkerSet ==
    \A t \in TaskIds :
        HasWorker(t) =>
            tasks[t].worker # NoAddr /\ tasks[t].worker # tasks[t].client

\* no step changes the client of a created task or the worker of an accepted
\* one
PartiesKept ==
    \A t \in TaskIds :
        /\ Created(t) => tasks'[t].client = tasks[t].client
        /\ HasWorker(t) => tasks'[t].worker = tasks[t].worker

\* C40: the client of a created task never changes after createTask; once
\* the task was accepted its worker never changes, is never the null identity
\* and is never the client, through every later deliver, approve, dispute and
\* resolve step.
C40_PartiesImmutable == []WorkerSet /\ [][PartiesKept]_vars

\* two accepted tasks of different clients with different workers, one of
\* them just settled by the admin
C40_Witness ==
    \E t \in TaskIds, u \in TaskIds :
        /\ last.op = "resolveDispute" /\ last.taskId = t
        /\ HasWorker(t) /\ HasWorker(u)
        /\ tasks[u].worker # tasks[t].worker
        /\ tasks[t].client # tasks[u].client

====
